---- MODULE Spec2Model ----
(***************************************************************************)
(* A model of the MineChat command line clients:                           *)
(*   run.py          the GUI client: read session, write session,          *)
(*                   persistence drain, history replay, gui                *)
(*   listen_chat.py  the listening script, wrapped by the retry decorator  *)
(*   send_to_chat.py the sending script                                    *)
(* One run of the model is one run of one of the three scripts (prog).     *)
(* Strings of the programs are sequences of characters; a record on the    *)
(* wire or in the history file ends with NL.                               *)
(***************************************************************************)
EXTENDS Integers, Sequences, FiniteSets, TLC

\* ---------------------------------------------------------------- bounds
MaxInputs == 2   \* inputs of a run: lines the chat server sends on the read port
                 \* plus messages the user submits in the gui
MaxOld == 1      \* lines of the history file when the client starts
MaxMsgLen == 1   \* characters of a message submitted in the gui
MaxArgLen == 3   \* characters of the --message of send_to_chat.py
MaxFaults == 1   \* network faults (refused, reset, timeout, DNS) of run.py
MaxRetries == 3  \* network faults of listen_chat.py, each caught by retry

\* ------------------------------------------------------- program constants
RETRY_TIMEOUT == 10

NL == "\n"
BadByte == "\\xff"
None == "None"

\* ---------------------------------------------------------------- strings
\* str.rstrip('\n'): drop every trailing newline
RECURSIVE rstrip(_)
rstrip(s) ==
    IF s # <<>> /\ s[Len(s)] = NL THEN rstrip(SubSeq(s, 1, Len(s) - 1)) ELSE s

\* bytes.decode(): UnicodeDecodeError on a byte that is not UTF-8
decode_fails(b) == \E i \in 1..Len(b) : b[i] = BadByte

\* str.split('\n')
RECURSIVE split_from(_, _, _)
split_from(s, i, cur) ==
    IF i > Len(s) THEN <<cur>>
    ELSE IF s[i] = NL THEN <<cur>> \o split_from(s, i + 1, <<>>)
    ELSE split_from(s, i + 1, Append(cur, s[i]))

split_mut(message) == <<message>>

split(message) == split_from(message, 1, <<>>)

\* StreamReader.at_eof(): EOF was fed and the buffer is empty
at_eof(buf, eof) == eof /\ buf = <<>>

\* StreamReader.readline(): the next record of the buffer, b'' at EOF
readline_ready(buf, eof) == buf # <<>> \/ eof
readline(buf) == IF buf # <<>> THEN Head(buf) ELSE <<>>
after_readline(buf) == IF buf # <<>> THEN Tail(buf) ELSE <<>>

\* the exceptions
ConnectErrors == {"ConnectionRefusedError", "gaierror", "TimeoutError"}
TransientErrors == ConnectErrors \cup {"ConnectionResetError"}

IsPrefix(s, t) == Len(s) <= Len(t) /\ SubSeq(t, 1, Len(s)) = s

\* the payloads the chat server sends on the read port
LinePayloads == {<<"a">>, <<"b">>, <<BadByte>>}
\* the history file's lines at start: OldLine(1), OldLine(2), ...
Digit(i) == <<"0", "1", "2", "3", "4", "5", "6", "7", "8", "9">>[i + 1]
OldLine(i) == <<"h", Digit(i), NL>>

RECURSIVE SeqsUpTo(_, _)
SeqsUpTo(S, n) ==
    IF n = 0 THEN {<<>>}
    ELSE LET shorter == SeqsUpTo(S, n - 1)
         IN shorter \cup {Append(s, c) : s \in {t \in shorter : Len(t) = n - 1}, c \in S}

\* what the user can submit in the gui
Outgoing == SeqsUpTo({"a", NL}, MaxMsgLen)
\* the --message and --nickname arguments of send_to_chat.py
CmdMessages == SeqsUpTo({"a", "b", NL}, MaxArgLen)
Nicknames == {<<"n">>, <<"n", NL, "m">>}
\* no credentials yet
NoCreds == [nickname |-> <<>>, account_hash |-> None]

VARIABLES
    prog,                 \* "run", "listen" or "send": the script that runs
    token,                \* settings.token / --token
    hist0,                \* the history file's lines when the script starts
    hist_exists0,         \* whether the history file exists then
    cmd_nickname, cmd_message,  \* --nickname and --message of send_to_chat.py
    user_creds,           \* what register returned
    creds_file,           \* the file store_creds wrote
    faults,               \* network faults so far
    \* the read connection
    rd_pc, rd_open, rd_buf, rd_eof, rd_exc, rd_fatal, srv_sent,
    \* the queues of start_chat, and what each producer has put so far
    messages_queue, chat_history_queue, status_updates_queue, sending_queue,
    live_put, live_hput, replay_put,
    \* the history file
    hist_exists, hist,
    \* save_msgs
    sv_pc, sv_msg,
    \* load_old_messages
    ld_pc, old_messages,
    \* the write connection
    wr_pc, wr_open, wr_log, wr_lines, wr_auth, wr_exc, errors_shown, send_calls,
    \* gui.draw
    gui_sent,
    \* asyncio.run(start_chat(...))
    main_exc, shutdown,
    \* retry
    is_first_attempt, attempts, failures, sleeps, clock, wake_at, attempt_at,
    last_fail_at

cfgVars == <<prog, token, hist0, hist_exists0, cmd_nickname, cmd_message, user_creds,
             creds_file>>
argVars == <<prog, hist0, hist_exists0, cmd_nickname, cmd_message>>
readVars == <<rd_pc, rd_open, rd_buf, rd_eof, rd_exc, rd_fatal, srv_sent>>
queueVars == <<messages_queue, chat_history_queue, live_put, live_hput>>
histVars == <<hist_exists, hist>>
saveVars == <<sv_pc, sv_msg>>
loadVars == <<ld_pc, old_messages, replay_put>>
writeVars == <<wr_pc, wr_open, wr_log, wr_lines, wr_auth, wr_exc, errors_shown,
               send_calls>>
guiVars == <<sending_queue, gui_sent>>
mainVars == <<main_exc, shutdown>>
retryVars == <<is_first_attempt, attempts, failures, sleeps, wake_at, attempt_at,
               last_fail_at>>

vars == <<cfgVars, faults, readVars, queueVars, status_updates_queue, histVars,
          saveVars, loadVars, writeVars, guiVars, mainVars, retryVars, clock>>

\* ------------------------------------------------------------------ Init
Terminated == {"off", "returned", "raised", "cancelled"}

InitCommon ==
    /\ faults = 0
    /\ rd_open = FALSE /\ rd_buf = <<>> /\ rd_eof = FALSE /\ rd_exc = None
    /\ rd_fatal = None
    /\ srv_sent = <<>>
    /\ messages_queue = <<>> /\ chat_history_queue = <<>>
    /\ status_updates_queue = <<>> /\ sending_queue = <<>>
    /\ live_put = <<>> /\ live_hput = <<>> /\ replay_put = <<>>
    /\ hist = hist0 /\ hist_exists = hist_exists0
    /\ sv_msg = <<>> /\ old_messages = <<>>
    /\ wr_open = FALSE /\ wr_log = <<>> /\ wr_lines = <<>> /\ wr_auth = None
    /\ wr_exc = None /\ errors_shown = 0 /\ send_calls = <<>>
    /\ user_creds = NoCreds /\ creds_file = NoCreds
    /\ gui_sent = <<>>
    /\ main_exc = None /\ shutdown = FALSE
    /\ is_first_attempt = TRUE /\ attempts = 0 /\ failures = 0 /\ sleeps = 0
    /\ clock = 0 /\ wake_at = 0 /\ attempt_at = 0 /\ last_fail_at = 0

\* run.py: start_chat has made the four queues and gather has made the tasks
InitRun ==
    /\ prog = "run"
    /\ token \in {None, "tok"}
    /\ cmd_nickname = <<>> /\ cmd_message = <<>>
    /\ \/ hist_exists0 = FALSE /\ hist0 = <<>>
       \/ hist_exists0 = TRUE /\ \E m \in 0..MaxOld : hist0 = [i \in 1..m |-> OldLine(i)]
    /\ rd_pc = "init" /\ wr_pc = "init" /\ sv_pc = "init" /\ ld_pc = "init"
    /\ InitCommon

\* listen_chat.py: main has parsed the arguments; the history file is new
InitListen ==
    /\ prog = "listen"
    /\ token = None
    /\ cmd_nickname = <<>> /\ cmd_message = <<>>
    /\ hist_exists0 = FALSE /\ hist0 = <<>>
    /\ rd_pc = "init" /\ wr_pc = "off" /\ sv_pc = "off" /\ ld_pc = "off"
    /\ InitCommon

\* send_to_chat.py: main has parsed the arguments
InitSend ==
    /\ prog = "send"
    /\ token \in {None, "tok", "bad"}
    /\ cmd_nickname \in Nicknames /\ cmd_message \in CmdMessages
    /\ hist_exists0 = FALSE /\ hist0 = <<>>
    /\ rd_pc = "off" /\ wr_pc = "init" /\ sv_pc = "off" /\ ld_pc = "off"
    /\ InitCommon

Init == InitRun \/ InitListen \/ InitSend

\* ------------------------------------------------------------ asyncio.run
\* the inputs of the run so far
Inputs == Len(srv_sent) + Len(gui_sent)

\* the file after `write(f'{message}\n')` in append mode
write_line_mut(file, message) == Append(Append(file, message \o <<NL>>), message \o <<NL>>)

\* (the file opened in mode 'w')
write_line_w(file, message) == <<message \o <<NL>>>>

write_line(file, message) == Append(file, message \o <<NL>>)

\* writer.close(): the transport is open no more
close_mut(open) == open

close(open) == FALSE

\* `finally:` the clean-up runs whatever leaves the body (None: a clean exit)
finally_mut(exc) == exc = None

finally(exc) == TRUE

\* the transport after the body of chat_connection has been left with exc
body_exit(open, exc) == IF finally(exc) THEN close(open) ELSE open

\* `except InvalidToken:` of chat_connection
handled_mut(e) == FALSE

handled(e) == e = "InvalidToken"

cancel(pc) == IF pc \in Terminated THEN pc ELSE "cancelled"

\* what the end of start_chat changes
endVars == <<rd_pc, wr_pc, sv_pc, ld_pc, rd_open, wr_open, hist_exists, hist, main_exc,
             shutdown>>

\* asyncio.gather: a task's exception is start_chat's exception, and asyncio.run
\* then cancels every task that is left (taken in the step of the raise); a
\* cancelled task inside chat_connection closes its writer; a write of save_msgs
\* that is under way in the thread pool may or may not reach the file
gather_raise(task, e) ==
    /\ main_exc' = e /\ shutdown' = TRUE
    /\ rd_pc' = IF task = "read_msgs" THEN "raised" ELSE cancel(rd_pc)
    /\ wr_pc' = IF task = "send_messages" THEN "raised" ELSE cancel(wr_pc)
    /\ ld_pc' = IF task = "load_old_messages" THEN "raised" ELSE cancel(ld_pc)
    /\ sv_pc' = cancel(sv_pc)
    /\ rd_open' = body_exit(rd_open, "CancelledError")
    /\ wr_open' = IF prog = "send" THEN wr_open ELSE body_exit(wr_open, "CancelledError")
    /\ \E written \in BOOLEAN :
          IF sv_pc = "write" /\ written
          THEN hist' = write_line(hist, sv_msg) /\ hist_exists' = TRUE
          ELSE UNCHANGED histVars

Running == ~shutdown

\* gather starts the tasks in its order of arguments, each up to its first
\* await: read_msgs and send_messages enter chat_connection (the INITIATED event,
\* open_connection), save_msgs waits on its queue, load_old_messages opens the file
start_chat ==
    /\ prog = "run" /\ Running /\ rd_pc = "init"
    /\ status_updates_queue' = status_updates_queue \o
           <<"ReadConnectionStateChanged.INITIATED",
             "SendingConnectionStateChanged.INITIATED">>
    /\ rd_pc' = "connect" /\ wr_pc' = "connect" /\ sv_pc' = "get" /\ ld_pc' = "open"
    /\ UNCHANGED <<cfgVars, faults, rd_open, rd_buf, rd_eof, rd_exc, rd_fatal, srv_sent, queueVars,
                   histVars, sv_msg, old_messages, replay_put, wr_open, wr_log, wr_lines,
                   wr_auth, wr_exc, errors_shown, send_calls, guiVars, mainVars, retryVars, clock>>

\* ----------------------------------------------------- the chat server, read port
ServerSendLine(p) ==
    /\ prog \in {"run", "listen"} /\ rd_open /\ ~rd_eof
    /\ Inputs < MaxInputs
    /\ rd_buf' = Append(rd_buf, p \o <<NL>>)
    /\ srv_sent' = Append(srv_sent, p)
    /\ UNCHANGED <<cfgVars, faults, rd_pc, rd_open, rd_eof, rd_exc, rd_fatal, queueVars,
                   status_updates_queue, histVars, saveVars, loadVars, writeVars,
                   guiVars, mainVars, retryVars, clock>>

ServerClose ==
    /\ prog \in {"run", "listen"} /\ rd_open /\ ~rd_eof
    /\ rd_eof' = TRUE
    /\ UNCHANGED <<cfgVars, faults, rd_pc, rd_open, rd_buf, rd_exc, rd_fatal, srv_sent, queueVars,
                   status_updates_queue, histVars, saveVars, loadVars, writeVars,
                   guiVars, mainVars, retryVars, clock>>

\* ------------------------------------------------------- run.py: read_msgs
\* open_connection returns; no token, so the body starts: the loop's first test
read_msgs_connected ==
    /\ prog = "run" /\ Running /\ rd_pc = "connect"
    /\ rd_open' = TRUE /\ rd_buf' = <<>> /\ rd_eof' = FALSE
    /\ rd_pc' = "readline"
    /\ UNCHANGED <<cfgVars, faults, rd_exc, rd_fatal, srv_sent, queueVars, status_updates_queue,
                   histVars, saveVars, loadVars, writeVars, guiVars, mainVars,
                   retryVars, clock>>

\* open_connection raises: chat_connection has no transport yet, read_msgs raises
read_msgs_connect_fails(e) ==
    /\ prog = "run" /\ Running /\ rd_pc = "connect"
    /\ faults < MaxFaults /\ faults' = faults + 1
    /\ rd_exc' = e /\ UNCHANGED rd_fatal
    /\ gather_raise("read_msgs", e)
    /\ UNCHANGED <<cfgVars, rd_buf, rd_eof, srv_sent, queueVars, status_updates_queue,
                   sv_msg, old_messages, replay_put, wr_log, wr_lines, wr_auth, wr_exc,
                   errors_shown, send_calls, guiVars, retryVars, clock>>

\* one turn of the loop: read_message, the two put_nowait, the loop's test;
\* leaving the loop (or an exception) runs chat_connection's finally: writer.close()
read_msgs_message ==
    /\ prog = "run" /\ Running /\ rd_pc = "readline"
    /\ readline_ready(rd_buf, rd_eof)
    /\ LET chat_message == readline(rd_buf)
           rest == after_readline(rd_buf)
           message == rstrip(chat_message)
       IN /\ rd_buf' = rest
          /\ IF decode_fails(chat_message)
             THEN /\ rd_exc' = "UnicodeDecodeError"
                  /\ rd_fatal' = "UnicodeDecodeError"
                  /\ rd_open' = body_exit(rd_open, "UnicodeDecodeError")
                  /\ rd_pc' = "wait_closed"
                  /\ UNCHANGED queueVars
             ELSE /\ messages_queue' = Append(messages_queue, message)
                  /\ live_put' = Append(live_put, message)
                  /\ chat_history_queue' = Append(chat_history_queue, message)
                  /\ live_hput' = Append(live_hput, message)
                  /\ UNCHANGED <<rd_exc, rd_fatal>>
                  /\ IF at_eof(rest, rd_eof)
                     THEN rd_open' = body_exit(rd_open, None) /\ rd_pc' = "wait_closed"
                     ELSE rd_open' = rd_open /\ rd_pc' = "readline"
    /\ UNCHANGED <<cfgVars, faults, rd_eof, srv_sent, status_updates_queue, histVars,
                   saveVars, loadVars, writeVars, guiVars, mainVars, retryVars, clock>>

\* the connection is reset while readline waits
read_msgs_reset ==
    /\ prog = "run" /\ Running /\ rd_pc = "readline"
    /\ faults < MaxFaults /\ faults' = faults + 1
    /\ rd_exc' = "ConnectionResetError" /\ UNCHANGED rd_fatal
    /\ rd_open' = body_exit(rd_open, "ConnectionResetError") /\ rd_pc' = "wait_closed"
    /\ UNCHANGED <<cfgVars, rd_buf, rd_eof, srv_sent, queueVars, status_updates_queue,
                   histVars, saveVars, loadVars, writeVars, guiVars, mainVars,
                   retryVars, clock>>

\* wait_closed returns: read_msgs returns, or raises what left the loop
read_msgs_closed ==
    /\ prog = "run" /\ Running /\ rd_pc = "wait_closed"
    /\ IF rd_exc = None
       THEN /\ rd_pc' = "returned"
            /\ UNCHANGED <<wr_pc, sv_pc, ld_pc, rd_open, wr_open, histVars, mainVars>>
       ELSE gather_raise("read_msgs", rd_exc)
    /\ UNCHANGED <<cfgVars, faults, rd_buf, rd_eof, rd_exc, rd_fatal, srv_sent, queueVars,
                   status_updates_queue, sv_msg, old_messages, replay_put, wr_log,
                   wr_lines, wr_auth, wr_exc, errors_shown, send_calls, guiVars, retryVars, clock>>

\* ------------------------------------------------------- run.py: save_msgs
\* chat_history_queue.get() returns
save_msgs_get ==
    /\ prog = "run" /\ Running /\ sv_pc = "get"
    /\ chat_history_queue # <<>>
    /\ sv_msg' = Head(chat_history_queue)
    /\ chat_history_queue' = Tail(chat_history_queue)
    /\ sv_pc' = "write"
    /\ UNCHANGED <<cfgVars, faults, readVars, messages_queue, live_put, live_hput,
                   status_updates_queue, histVars, loadVars, writeVars, guiVars,
                   mainVars, retryVars, clock>>

\* aiofiles.open(history_file, 'a'), write, close; then the next get
save_msgs_write ==
    /\ prog = "run" /\ Running /\ sv_pc = "write"
    /\ hist' = write_line(hist, sv_msg)
    /\ hist_exists' = TRUE
    /\ sv_msg' = <<>>
    /\ sv_pc' = "get"
    /\ UNCHANGED <<cfgVars, faults, readVars, queueVars, status_updates_queue, loadVars,
                   writeVars, guiVars, mainVars, retryVars, clock>>

\* ----------------------------------------------- run.py: load_old_messages
\* aiofiles.open(history_file, 'r')
load_old_messages_open ==
    /\ prog = "run" /\ Running /\ ld_pc = "open"
    /\ IF hist_exists
       THEN /\ ld_pc' = "readlines"
            /\ UNCHANGED <<rd_pc, wr_pc, sv_pc, rd_open, wr_open, histVars, mainVars>>
       ELSE gather_raise("load_old_messages", "FileNotFoundError")
    /\ UNCHANGED <<cfgVars, faults, rd_buf, rd_eof, rd_exc, rd_fatal, srv_sent, queueVars,
                   status_updates_queue, sv_msg, old_messages, replay_put, wr_log,
                   wr_lines, wr_auth, wr_exc, errors_shown, send_calls, guiVars, retryVars, clock>>

\* readlines(): the file's records as they are now
load_old_messages_readlines ==
    /\ prog = "run" /\ Running /\ ld_pc = "readlines"
    /\ old_messages' = hist
    /\ ld_pc' = "close"
    /\ UNCHANGED <<cfgVars, faults, readVars, queueVars, status_updates_queue, histVars,
                   saveVars, replay_put, writeVars, guiVars, mainVars, retryVars, clock>>

\* the file is closed; the for loop puts every old message
load_old_messages_put ==
    /\ prog = "run" /\ Running /\ ld_pc = "close"
    /\ LET stripped == [i \in 1..Len(old_messages) |-> rstrip(old_messages[i])]
       IN /\ messages_queue' = messages_queue \o stripped
          /\ replay_put' = replay_put \o stripped
    /\ ld_pc' = "returned"
    /\ UNCHANGED <<cfgVars, faults, readVars, chat_history_queue, live_put, live_hput,
                   status_updates_queue, histVars, saveVars, old_messages, writeVars,
                   guiVars, mainVars, retryVars, clock>>

\* ----------------------------------------------------------- gui.draw
\* the user submits a message: it is put on sending_queue
gui_submit(m) ==
    /\ prog = "run" /\ Running /\ rd_pc # "init"
    /\ Inputs < MaxInputs
    /\ sending_queue' = Append(sending_queue, m)
    /\ gui_sent' = Append(gui_sent, m)
    /\ UNCHANGED <<cfgVars, faults, readVars, queueVars, status_updates_queue, histVars,
                   saveVars, loadVars, writeVars, mainVars, retryVars, clock>>

\* --------------------------------------------------- run.py: send_messages
\* what a function does on the write connection, as the log keeps it
ReadEvent(by) == [op |-> "readline", data |-> <<>>, by |-> by]
WriteEvent(by, bytes) == [op |-> "write", data |-> bytes, by |-> by]

\* `f'{user_token}\n'.encode()`
token_line_mut(user_token) == <<user_token>>

token_line(user_token) == <<user_token, NL>>

\* `any((reader is None, writer is None))`
unusable_mut(reader, writer) == FALSE

unusable(reader, writer) == reader = None \/ writer = None

AuthReplies == {"null", "creds", "malformed"}

\* open_connection returns; without a token the body starts at once
send_messages_connected ==
    /\ prog = "run" /\ Running /\ wr_pc = "connect"
    /\ wr_open' = TRUE
    /\ wr_pc' = IF token # None THEN "auth_prompt" ELSE "get"
    /\ UNCHANGED <<cfgVars, faults, readVars, queueVars, status_updates_queue, histVars,
                   saveVars, loadVars, wr_log, wr_lines, wr_auth, wr_exc, errors_shown,
                   send_calls, guiVars, mainVars, retryVars, clock>>

send_messages_connect_fails(e) ==
    /\ prog = "run" /\ Running /\ wr_pc = "connect"
    /\ faults < MaxFaults /\ faults' = faults + 1
    /\ wr_exc' = e
    /\ gather_raise("send_messages", e)
    /\ UNCHANGED <<cfgVars, rd_buf, rd_eof, rd_exc, rd_fatal, srv_sent, queueVars,
                   status_updates_queue, sv_msg, old_messages, replay_put, wr_log,
                   wr_lines, wr_auth, errors_shown, send_calls, guiVars, retryVars, clock>>

\* authorize: the prompt is read, the token written and drained
authorize_prompt ==
    /\ prog = "run" /\ Running /\ wr_pc = "auth_prompt"
    /\ wr_log' = wr_log \o <<ReadEvent("authorize"), WriteEvent("authorize", token_line(token))>>
    /\ wr_pc' = "auth_reply"
    /\ UNCHANGED <<cfgVars, faults, readVars, queueVars, status_updates_queue, histVars,
                   saveVars, loadVars, wr_open, wr_lines, wr_auth, wr_exc, errors_shown,
                   send_calls, guiVars, mainVars, retryVars, clock>>

\* the reply to the token is read and parsed: null raises InvalidToken, which
\* chat_connection catches (error box, `yield None, None`); send_messages then
\* returns if the pair is unusable; a record that is no JSON raises JSONDecodeError
authorize_reply(reply) ==
    /\ prog = "run" /\ Running /\ wr_pc = "auth_reply"
    /\ wr_log' = Append(wr_log, ReadEvent("authorize"))
    /\ wr_auth' = reply
    /\ CASE reply = "creds" ->
               /\ wr_pc' = "auth_welcome"
               /\ UNCHANGED <<wr_open, wr_exc, errors_shown>>
         [] reply = "malformed" ->
               /\ wr_exc' = "JSONDecodeError"
               /\ wr_open' = body_exit(wr_open, "JSONDecodeError") /\ wr_pc' = "wait_closed"
               /\ UNCHANGED errors_shown
         [] reply = "null" ->
               IF handled("InvalidToken")
               THEN /\ errors_shown' = errors_shown + 1
                    /\ IF unusable(None, None)
                       THEN wr_open' = body_exit(wr_open, None) /\ wr_pc' = "wait_closed"
                       ELSE wr_open' = wr_open /\ wr_pc' = "get"
                    /\ UNCHANGED wr_exc
               ELSE /\ wr_exc' = "InvalidToken"
                    /\ wr_open' = body_exit(wr_open, "InvalidToken") /\ wr_pc' = "wait_closed"
                    /\ UNCHANGED errors_shown
    /\ UNCHANGED <<cfgVars, faults, readVars, queueVars, status_updates_queue, histVars,
                   saveVars, loadVars, wr_lines, send_calls, guiVars, mainVars, retryVars, clock>>

\* the welcome line is read; authorize returns and the body starts
authorize_welcome ==
    /\ prog = "run" /\ Running /\ wr_pc = "auth_welcome"
    /\ wr_log' = Append(wr_log, ReadEvent("authorize"))
    /\ wr_pc' = "get"
    /\ UNCHANGED <<cfgVars, faults, readVars, queueVars, status_updates_queue, histVars,
                   saveVars, loadVars, wr_open, wr_lines, wr_auth, wr_exc, errors_shown,
                   send_calls, guiVars, mainVars, retryVars, clock>>

\* asyncio.Queue(): get takes the item that was put first
get_index_mut(queue) == Len(queue)

get_index(queue) == 1

without(queue, i) == SubSeq(queue, 1, i - 1) \o SubSeq(queue, i + 1, Len(queue))

\* sending_queue.get() returns; send_message splits the message, writes its
\* first line and drains
send_messages_get ==
    /\ prog = "run" /\ Running /\ wr_pc = "get"
    /\ sending_queue # <<>>
    /\ LET message == sending_queue[get_index(sending_queue)]
           message_lines == split(message)
       IN /\ wr_log' = Append(wr_log, WriteEvent("send_message", Head(message_lines) \o <<NL, NL>>))
          /\ wr_lines' = Tail(message_lines)
          /\ send_calls' = Append(send_calls, message)
    /\ sending_queue' = without(sending_queue, get_index(sending_queue))
    /\ wr_pc' = "reply"
    /\ UNCHANGED <<cfgVars, faults, readVars, queueVars, status_updates_queue, histVars,
                   saveVars, loadVars, wr_open, wr_auth, wr_exc, errors_shown, gui_sent,
                   mainVars, retryVars, clock>>

\* the reply is read; the next line is written, or send_message returns
send_message_reply ==
    /\ prog = "run" /\ Running /\ wr_pc = "reply"
    /\ IF wr_lines # <<>>
       THEN /\ wr_log' = wr_log \o <<ReadEvent("send_message"),
                                   WriteEvent("send_message", Head(wr_lines) \o <<NL, NL>>)>>
            /\ wr_lines' = Tail(wr_lines)
            /\ wr_pc' = "reply"
       ELSE /\ wr_log' = Append(wr_log, ReadEvent("send_message"))
            /\ wr_lines' = wr_lines
            /\ wr_pc' = "get"
    /\ UNCHANGED <<cfgVars, faults, readVars, queueVars, status_updates_queue, histVars,
                   saveVars, loadVars, wr_open, wr_auth, wr_exc, errors_shown, send_calls, guiVars,
                   mainVars, retryVars, clock>>

\* the write connection is reset while the session awaits it: the exception
\* leaves the body and chat_connection's finally closes the writer
OnWriteTransport == {"auth_prompt", "auth_reply", "auth_welcome", "reply"}

send_messages_reset ==
    /\ prog = "run" /\ Running /\ wr_pc \in OnWriteTransport
    /\ faults < MaxFaults /\ faults' = faults + 1
    /\ wr_exc' = "ConnectionResetError"
    /\ wr_open' = body_exit(wr_open, "ConnectionResetError") /\ wr_pc' = "wait_closed"
    /\ UNCHANGED <<cfgVars, readVars, queueVars, status_updates_queue, histVars, saveVars,
                   loadVars, wr_log, wr_lines, wr_auth, errors_shown, send_calls, guiVars, mainVars,
                   retryVars, clock>>

\* wait_closed returns: send_messages returns, or raises what left the body
send_messages_closed ==
    /\ prog = "run" /\ Running /\ wr_pc = "wait_closed"
    /\ IF wr_exc = None
       THEN /\ wr_pc' = "returned"
            /\ UNCHANGED <<rd_pc, sv_pc, ld_pc, rd_open, wr_open, histVars, mainVars>>
       ELSE gather_raise("send_messages", wr_exc)
    /\ UNCHANGED <<cfgVars, faults, rd_buf, rd_eof, rd_exc, rd_fatal, srv_sent, queueVars,
                   status_updates_queue, sv_msg, old_messages, replay_put, wr_log,
                   wr_lines, wr_auth, wr_exc, errors_shown, send_calls, guiVars, retryVars, clock>>

\* -------------------------------------------------------------- asyncio.run
\* Ctrl-C raises KeyboardInterrupt in the event loop: asyncio.run cancels every task
KeyboardInterrupt ==
    /\ Running /\ rd_pc # "init"
    /\ gather_raise("main", "KeyboardInterrupt")
    /\ UNCHANGED <<cfgVars, faults, rd_buf, rd_eof, rd_exc, rd_fatal, srv_sent, queueVars,
                   status_updates_queue, sv_msg, old_messages, replay_put, wr_log,
                   wr_lines, wr_auth, wr_exc, errors_shown, send_calls, guiVars, retryVars, clock>>

\* ------------------------------------------------- listen_chat.py: retry
FaultBudget == IF prog = "listen" THEN MaxRetries ELSE MaxFaults

\* `except (ConnectionError, asyncio.TimeoutError, socket.gaierror)`
caught_mut(e) == TRUE

caught(e) == e \in {"ConnectionRefusedError", "ConnectionResetError", "TimeoutError",
                    "gaierror"}

\* `if is_first_attempt:` the retry that follows at once
immediate_mut(first) == TRUE

immediate(first) == first

\* `is_first_attempt = False`
cleared_mut(first) == first

cleared(first) == FALSE

\* asyncio.sleep(RETRY_TIMEOUT) returns at
sleep_until(now) == now + RETRY_TIMEOUT

\* `while True:` the loop of wrapped goes on after failure number n
loop_again_mut(n) == n < 2

loop_again(n) == TRUE

\* `await coroutine(*args, **kwargs)`: listen_chat enters chat_connection,
\* which awaits open_connection
StartAttempt ==
    /\ rd_pc' = "connect"
    /\ attempts' = attempts + 1
    /\ attempt_at' = clock

\* exception e leaves the coroutine: the except clause of wrapped and what
\* follows it up to the next await
retry_except(e) ==
    IF caught(e) /\ ~loop_again(failures + 1)
    THEN /\ failures' = failures + 1
         /\ last_fail_at' = clock
         /\ rd_pc' = "returned"
         /\ UNCHANGED <<main_exc, shutdown, sleeps, is_first_attempt, attempts, attempt_at,
                        wake_at>>
    ELSE IF caught(e)
    THEN /\ failures' = failures + 1
         /\ last_fail_at' = clock
         /\ UNCHANGED <<main_exc, shutdown, sleeps>>
         /\ IF immediate(is_first_attempt)
            THEN /\ is_first_attempt' = cleared(is_first_attempt)
                 /\ StartAttempt
                 /\ UNCHANGED wake_at
            ELSE /\ rd_pc' = "sleep"
                 /\ wake_at' = sleep_until(clock)
                 /\ UNCHANGED <<is_first_attempt, attempts, attempt_at>>
    ELSE /\ rd_pc' = "raised"
         /\ main_exc' = e /\ shutdown' = TRUE
         /\ UNCHANGED retryVars

\* main calls the decorated listen_chat
listen_chat_call ==
    /\ prog = "listen" /\ Running /\ rd_pc = "init"
    /\ is_first_attempt' = TRUE
    /\ StartAttempt
    /\ UNCHANGED <<cfgVars, faults, rd_open, rd_buf, rd_eof, rd_exc, rd_fatal, srv_sent, queueVars,
                   status_updates_queue, histVars, saveVars, loadVars, writeVars,
                   guiVars, mainVars, failures, sleeps, wake_at, last_fail_at, clock>>

\* open_connection returns and the loop starts
listen_chat_connected ==
    /\ prog = "listen" /\ Running /\ rd_pc = "connect"
    /\ rd_open' = TRUE /\ rd_buf' = <<>> /\ rd_eof' = FALSE
    /\ rd_pc' = "readline"
    /\ UNCHANGED <<cfgVars, faults, rd_exc, rd_fatal, srv_sent, queueVars, status_updates_queue,
                   histVars, saveVars, loadVars, writeVars, guiVars, mainVars,
                   retryVars, clock>>

\* open_connection raises: nothing to close
listen_chat_connect_fails(e) ==
    /\ prog = "listen" /\ Running /\ rd_pc = "connect"
    /\ faults < FaultBudget /\ faults' = faults + 1
    /\ retry_except(e)
    /\ UNCHANGED <<cfgVars, rd_open, rd_buf, rd_eof, rd_exc, rd_fatal, srv_sent, queueVars,
                   status_updates_queue, histVars, saveVars, loadVars, writeVars,
                   guiVars, clock>>

\* format_message: '[%Y.%m.%d %H:%M] message', the time being the clock's
Stamp(now) == <<Digit(now \div 10), Digit(now % 10)>>
format_message(message, now) == <<"[">> \o Stamp(now) \o <<"]", " ">> \o message

\* get_message returns a line; log_message formats it and opens the file
listen_chat_message ==
    /\ prog = "listen" /\ Running /\ rd_pc = "readline"
    /\ readline_ready(rd_buf, rd_eof)
    /\ LET chat_message == readline(rd_buf)
       IN /\ rd_buf' = after_readline(rd_buf)
          /\ IF decode_fails(chat_message)
             THEN /\ rd_exc' = "UnicodeDecodeError"
                  /\ rd_fatal' = "UnicodeDecodeError"
                  /\ rd_open' = body_exit(rd_open, "UnicodeDecodeError")
                  /\ rd_pc' = "wait_closed"
                  /\ UNCHANGED sv_msg
             ELSE /\ sv_msg' = format_message(rstrip(chat_message), clock)
                  /\ rd_pc' = "log_message"
                  /\ UNCHANGED <<rd_exc, rd_fatal, rd_open>>
    /\ UNCHANGED <<cfgVars, faults, rd_eof, srv_sent, queueVars, status_updates_queue,
                   histVars, sv_pc, loadVars, writeVars, guiVars, mainVars, retryVars,
                   clock>>

\* the line is written and the file closed; then the loop's test
listen_chat_logged ==
    /\ prog = "listen" /\ Running /\ rd_pc = "log_message"
    /\ hist' = write_line(hist, sv_msg) /\ hist_exists' = TRUE
    /\ sv_msg' = <<>>
    /\ IF at_eof(rd_buf, rd_eof)
       THEN rd_open' = body_exit(rd_open, None) /\ rd_pc' = "wait_closed"
       ELSE rd_open' = rd_open /\ rd_pc' = "readline"
    /\ UNCHANGED <<cfgVars, faults, rd_buf, rd_eof, rd_exc, rd_fatal, srv_sent, queueVars,
                   status_updates_queue, sv_pc, loadVars, writeVars, guiVars, mainVars,
                   retryVars, clock>>

\* the connection is reset while readline waits
listen_chat_reset ==
    /\ prog = "listen" /\ Running /\ rd_pc = "readline"
    /\ faults < FaultBudget /\ faults' = faults + 1
    /\ rd_exc' = "ConnectionResetError" /\ UNCHANGED rd_fatal
    /\ rd_open' = body_exit(rd_open, "ConnectionResetError") /\ rd_pc' = "wait_closed"
    /\ UNCHANGED <<cfgVars, rd_buf, rd_eof, srv_sent, queueVars, status_updates_queue,
                   histVars, saveVars, loadVars, writeVars, guiVars, mainVars,
                   retryVars, clock>>

\* wait_closed returns: listen_chat returns, and so does wrapped; or the
\* exception that left the loop reaches wrapped
listen_chat_closed ==
    /\ prog = "listen" /\ Running /\ rd_pc = "wait_closed"
    /\ IF rd_exc = None
       THEN rd_pc' = "returned" /\ UNCHANGED <<mainVars, retryVars>>
       ELSE retry_except(rd_exc)
    /\ rd_exc' = None /\ UNCHANGED rd_fatal
    /\ UNCHANGED <<cfgVars, faults, rd_open, rd_buf, rd_eof, srv_sent, queueVars,
                   status_updates_queue, histVars, saveVars, loadVars, writeVars,
                   guiVars, clock>>

\* asyncio.sleep returns, at the time it was set to, and the while loop calls
\* the coroutine again (time passes only while the script sleeps)
retry_sleep_done ==
    /\ prog = "listen" /\ Running /\ rd_pc = "sleep"
    /\ clock' = wake_at
    /\ sleeps' = sleeps + 1
    /\ rd_pc' = "connect"
    /\ attempts' = attempts + 1
    /\ attempt_at' = wake_at
    /\ UNCHANGED <<cfgVars, faults, rd_open, rd_buf, rd_eof, rd_exc, rd_fatal, srv_sent, queueVars,
                   status_updates_queue, histVars, saveVars, loadVars, writeVars,
                   guiVars, mainVars, is_first_attempt, failures, wake_at, last_fail_at>>

\* -------------------------------------------- send_to_chat.py: connect_and_send
\* what send_to_chat.py never touches
sendFrame == <<argVars, readVars, queueVars, status_updates_queue, histVars, saveVars,
               loadVars, guiVars, retryVars, clock, errors_shown>>

\* `nickname.replace('\n', ' ')`
RECURSIVE sanitize(_)
sanitize(nick) ==
    IF nick = <<>> THEN <<>>
    ELSE <<IF Head(nick) = NL THEN " " ELSE Head(nick)>> \o sanitize(Tail(nick))

\* the accounts of the chat server: "tok" is registered, "new" is what the
\* server gives to the next registration
ValidTokens == {"tok", "new"}

\* `token = user_creds[CREDS_TOKEN_FIELD]`
creds_token_mut(creds) == None

creds_token(creds) == creds.account_hash

\* an exception leaves connect_and_send: asyncio.run raises and the script ends
script_raise(e) ==
    /\ wr_pc' = "raised" /\ wr_exc' = e
    /\ main_exc' = e /\ shutdown' = TRUE

\* connect_and_send starts: register without a token, else autorize; both
\* start with connect, which awaits open_connection
connect_and_send ==
    /\ prog = "send" /\ Running /\ wr_pc = "init"
    /\ wr_pc' = IF token = None THEN "reg_connect" ELSE "auth_connect"
    /\ UNCHANGED <<sendFrame, token, user_creds, creds_file, faults, wr_open, wr_log,
                   wr_lines, wr_auth, wr_exc, send_calls, mainVars>>

\* open_connection returns; connect awaits the greeting
connect_opened ==
    /\ prog = "send" /\ Running /\ wr_pc \in {"reg_connect", "auth_connect"}
    /\ wr_open' = TRUE
    /\ wr_pc' = IF wr_pc = "reg_connect" THEN "reg_greeting" ELSE "auth_greeting"
    /\ UNCHANGED <<sendFrame, token, user_creds, creds_file, faults, wr_log, wr_lines,
                   wr_auth, wr_exc, send_calls, mainVars>>

connect_fails(e) ==
    /\ prog = "send" /\ Running /\ wr_pc \in {"reg_connect", "auth_connect"}
    /\ faults < FaultBudget /\ faults' = faults + 1
    /\ script_raise(e)
    /\ UNCHANGED <<sendFrame, token, user_creds, creds_file, wr_open, wr_log, wr_lines,
                   wr_auth, send_calls>>

\* register: the greeting is read, the empty line written
register_greeting ==
    /\ prog = "send" /\ Running /\ wr_pc = "reg_greeting"
    /\ wr_log' = wr_log \o <<ReadEvent("connect"), WriteEvent("register", <<NL>>)>>
    /\ wr_pc' = "reg_prompt"
    /\ UNCHANGED <<sendFrame, token, user_creds, creds_file, faults, wr_open, wr_lines,
                   wr_auth, wr_exc, send_calls, mainVars>>

\* the nickname prompt is read, the nickname written
register_prompt ==
    /\ prog = "send" /\ Running /\ wr_pc = "reg_prompt"
    /\ wr_log' = wr_log \o <<ReadEvent("register"),
                              WriteEvent("register", sanitize(cmd_nickname) \o <<NL>>)>>
    /\ wr_pc' = "reg_creds"
    /\ UNCHANGED <<sendFrame, token, user_creds, creds_file, faults, wr_open, wr_lines,
                   wr_auth, wr_exc, send_calls, mainVars>>

\* the credentials are read and parsed; writer.close()
register_creds ==
    /\ prog = "send" /\ Running /\ wr_pc = "reg_creds"
    /\ wr_log' = Append(wr_log, ReadEvent("register"))
    /\ user_creds' = [nickname |-> sanitize(cmd_nickname), account_hash |-> "new"]
    /\ wr_open' = close(wr_open)
    /\ wr_pc' = "reg_wait_closed"
    /\ UNCHANGED <<sendFrame, token, creds_file, faults, wr_lines, wr_auth, wr_exc,
                   send_calls, mainVars>>

\* wait_closed returns, register returns; store_creds opens the file
register_closed ==
    /\ prog = "send" /\ Running /\ wr_pc = "reg_wait_closed"
    /\ wr_pc' = "store_creds"
    /\ UNCHANGED <<sendFrame, token, user_creds, creds_file, faults, wr_open, wr_log,
                   wr_lines, wr_auth, wr_exc, send_calls, mainVars>>

\* the credentials are written; the token is taken from them; autorize connects
store_creds ==
    /\ prog = "send" /\ Running /\ wr_pc = "store_creds"
    /\ creds_file' = user_creds
    /\ token' = creds_token(user_creds)
    /\ wr_pc' = "auth_connect"
    /\ UNCHANGED <<sendFrame, user_creds, faults, wr_open, wr_log, wr_lines, wr_auth,
                   wr_exc, send_calls, mainVars>>

\* autorize: the greeting is read, the token written
autorize_greeting ==
    /\ prog = "send" /\ Running /\ wr_pc = "auth_greeting"
    /\ wr_log' = wr_log \o <<ReadEvent("connect"), WriteEvent("autorize", token_line(token))>>
    /\ wr_pc' = "auth_reply"
    /\ UNCHANGED <<sendFrame, token, user_creds, creds_file, faults, wr_open, wr_lines,
                   wr_auth, wr_exc, send_calls, mainVars>>

\* the reply to the token is read and parsed: RuntimeError on null
autorize_reply ==
    /\ prog = "send" /\ Running /\ wr_pc = "auth_reply"
    /\ wr_log' = Append(wr_log, ReadEvent("autorize"))
    /\ IF token \in ValidTokens
       THEN /\ wr_auth' = "creds"
            /\ wr_pc' = "auth_welcome"
            /\ UNCHANGED <<wr_exc, mainVars>>
       ELSE /\ wr_auth' = "null"
            /\ script_raise("RuntimeError")
    /\ UNCHANGED <<sendFrame, token, user_creds, creds_file, faults, wr_open, wr_lines,
                   send_calls>>

\* the welcome line is read and autorize returns; send_message splits the
\* message and writes its first line
autorize_welcome ==
    /\ prog = "send" /\ Running /\ wr_pc = "auth_welcome"
    /\ LET message_lines == split(cmd_message)
       IN /\ wr_log' = wr_log \o
                 <<ReadEvent("autorize"),
                   WriteEvent("send_message", Head(message_lines) \o <<NL, NL>>)>>
          /\ wr_lines' = Tail(message_lines)
    /\ send_calls' = Append(send_calls, cmd_message)
    /\ wr_pc' = "reply"
    /\ UNCHANGED <<sendFrame, token, user_creds, creds_file, faults, wr_open, wr_auth,
                   wr_exc, mainVars>>

\* the reply is read; the next line is written, or send_message returns and
\* connect_and_send closes the writer
send_to_chat_reply ==
    /\ prog = "send" /\ Running /\ wr_pc = "reply"
    /\ IF wr_lines # <<>>
       THEN /\ wr_log' = wr_log \o <<ReadEvent("send_message"),
                                   WriteEvent("send_message", Head(wr_lines) \o <<NL, NL>>)>>
            /\ wr_lines' = Tail(wr_lines)
            /\ UNCHANGED <<wr_pc, wr_open>>
       ELSE /\ wr_log' = Append(wr_log, ReadEvent("send_message"))
            /\ wr_lines' = wr_lines
            /\ wr_open' = close(wr_open)
            /\ wr_pc' = "wait_closed"
    /\ UNCHANGED <<sendFrame, token, user_creds, creds_file, faults, wr_auth, wr_exc,
                   send_calls, mainVars>>

\* wait_closed returns and connect_and_send returns
send_to_chat_closed ==
    /\ prog = "send" /\ Running /\ wr_pc = "wait_closed"
    /\ wr_pc' = "returned"
    /\ UNCHANGED <<sendFrame, token, user_creds, creds_file, faults, wr_open, wr_log,
                   wr_lines, wr_auth, wr_exc, send_calls, mainVars>>

\* the connection is reset while readline waits: nothing catches it
send_to_chat_reset ==
    /\ prog = "send" /\ Running
    /\ wr_pc \in {"reg_greeting", "reg_prompt", "reg_creds", "auth_greeting",
                   "auth_reply", "auth_welcome", "reply"}
    /\ faults < FaultBudget /\ faults' = faults + 1
    /\ script_raise("ConnectionResetError")
    /\ UNCHANGED <<sendFrame, token, user_creds, creds_file, wr_open, wr_log, wr_lines,
                   wr_auth, send_calls>>

\* ------------------------------------------------------------------ Next
Next ==
    \/ \E p \in LinePayloads : ServerSendLine(p)
    \/ ServerClose
    \/ start_chat
    \/ read_msgs_connected
    \/ \E e \in ConnectErrors : read_msgs_connect_fails(e)
    \/ read_msgs_message
    \/ read_msgs_reset
    \/ read_msgs_closed
    \/ save_msgs_get
    \/ save_msgs_write
    \/ load_old_messages_open
    \/ load_old_messages_readlines
    \/ load_old_messages_put
    \/ \E m \in Outgoing : gui_submit(m)
    \/ send_messages_connected
    \/ \E e \in ConnectErrors : send_messages_connect_fails(e)
    \/ authorize_prompt
    \/ \E reply \in AuthReplies : authorize_reply(reply)
    \/ authorize_welcome
    \/ send_messages_get
    \/ send_message_reply
    \/ send_messages_reset
    \/ send_messages_closed
    \/ KeyboardInterrupt
    \/ listen_chat_call
    \/ listen_chat_connected
    \/ \E e \in ConnectErrors : listen_chat_connect_fails(e)
    \/ listen_chat_message
    \/ listen_chat_logged
    \/ listen_chat_reset
    \/ listen_chat_closed
    \/ retry_sleep_done
    \/ connect_and_send
    \/ connect_opened
    \/ \E e \in ConnectErrors : connect_fails(e)
    \/ register_greeting
    \/ register_prompt
    \/ register_creds
    \/ register_closed
    \/ store_creds
    \/ autorize_greeting
    \/ autorize_reply
    \/ autorize_welcome
    \/ send_to_chat_reply
    \/ send_to_chat_closed
    \/ send_to_chat_reset

Spec == Init /\ [][Next]_vars

\* the event loop runs every task that is ready: save_msgs is not starved
LiveSpec == Spec /\ WF_vars(save_msgs_get) /\ WF_vars(save_msgs_write)

\* asyncio.sleep returns when its time has come
RetrySpec == Spec /\ WF_vars(retry_sleep_done)

\* ================================================================ claims
\* the messages save_msgs has appended to the history file
Appended == SubSeq(hist, Len(hist0) + 1, Len(hist))
AppendedMessages == [i \in 1..Len(Appended) |-> rstrip(Appended[i])]
\* the old history as replay should show it
OldMessages == [i \in 1..Len(hist0) |-> rstrip(hist0[i])]

\* C1: for N lines sent on the read connection read_msgs puts exactly those N
\* items, in order, on messages_queue and on chat_history_queue; nothing is
\* put at end-of-file.
C1_ExactlyTheLinesSent ==
    prog = "run" =>
        /\ IsPrefix(live_put, srv_sent)
        /\ IsPrefix(live_hput, srv_sent)
        /\ rd_pc = "returned" => (live_put = srv_sent /\ live_hput = srv_sent)

\* C2: what save_msgs has appended is at every moment a prefix of what
\* read_msgs has put on messages_queue (no live message twice, none skipped),
\* and every message put is appended in the end, unless start_chat ends.
C2_SavedExactlyOnce ==
    /\ [](prog = "run" => IsPrefix(AppendedMessages, live_put))
    /\ \A i \in 1..(MaxInputs + 1) :
          (prog = "run" /\ Len(live_put) >= i) ~> (shutdown \/ Len(Appended) >= i)

C2_Witness ==
    /\ prog = "run" /\ ~shutdown
    /\ Len(live_put) >= 2 /\ AppendedMessages = live_put

\* C3: the attempt after the first transient failure starts with no sleep; the
\* attempt after every later transient failure starts only after a sleep of
\* RETRY_TIMEOUT.
C3_RetryDelays ==
    prog = "listen" =>
        /\ attempts \in {failures, failures + 1}
        /\ rd_pc = "sleep" => (attempts = failures /\ failures >= 2)
        /\ (attempts = failures + 1 /\ failures = 1) =>
               (sleeps = 0 /\ attempt_at = last_fail_at)
        /\ (attempts = failures + 1 /\ failures >= 2) =>
               (sleeps = failures - 1 /\ attempt_at >= last_fail_at + RETRY_TIMEOUT)

C3_Witness ==
    /\ prog = "listen" /\ failures = 3 /\ attempts = 4 /\ sleeps = 2
    /\ attempt_at = 2 * RETRY_TIMEOUT

\* C4: once a fatal failure is raised in a session (a record that is not UTF-8,
\* InvalidToken, a handshake record that is no JSON), the session makes no
\* further connection attempt.
C4_FatalNotRetried ==
    [][ /\ rd_fatal # None => (attempts' = attempts /\ ~rd_open' /\ rd_pc' # "connect")
        /\ wr_auth \in {"null", "malformed"} =>
               /\ wr_pc' \notin {"connect", "auth_prompt", "reg_connect", "auth_connect"}
               /\ prog = "run" => ~wr_open'
      ]_vars

C4_Witness ==
    /\ prog = "listen" /\ rd_fatal # None /\ failures >= 2 /\ rd_pc = "raised"

\* C5: after the JSON literal null as the reply to the token the write session
\* ends without an exception, the error box was shown once, and nothing was
\* taken from sending_queue or written after the token.
C5_NullTokenSendsNothing ==
    (prog = "run" /\ wr_auth = "null") =>
        /\ wr_pc \in {"wait_closed", "returned", "cancelled"}
        /\ ~wr_open
        /\ errors_shown = 1
        /\ sending_queue = gui_sent
        /\ \A i \in 1..Len(wr_log) : wr_log[i].by = "authorize"

C5_Witness ==
    /\ prog = "run" /\ wr_auth = "null" /\ wr_pc = "returned" /\ ~shutdown
    /\ errors_shown = 1 /\ Len(sending_queue) >= 1

\* C6: after the server has closed the read connection and the transport is
\* closed, the read session is on its way to a new connection: it has not ended.
C6_ReopensAfterServerClose ==
    (rd_eof /\ ~rd_open /\ ~shutdown) => rd_pc \in {"wait_closed", "connect", "sleep"}

\* C7: a transient failure is never the exception that ends the client, and
\* the other tasks are not cancelled for it.
C7_TransientNeverFatal ==
    main_exc \notin TransientErrors

\* what send_message has done on the write connection, and the lines it wrote
SendLog == SelectSeq(wr_log, LAMBDA ev : ev.by = "send_message")
WrittenLines ==
    LET writes == SelectSeq(SendLog, LAMBDA ev : ev.op = "write")
    IN [i \in 1..Len(writes) |-> SubSeq(writes[i].data, 1, Len(writes[i].data) - 2)]
CountNL(s) == Cardinality({i \in 1..Len(s) : s[i] = NL})
RECURSIVE Join(_)
Join(lines) ==
    IF Len(lines) = 1 THEN lines[1] ELSE lines[1] \o <<NL>> \o Join(Tail(lines))
\* lines are, message after message, the k+1 lines of a message with k newlines
RECURSIVE LinesOf(_, _)
LinesOf(lines, msgs) ==
    IF msgs = <<>> THEN lines = <<>>
    ELSE LET k == CountNL(Head(msgs)) + 1
         IN /\ Len(lines) >= k
            /\ Join(SubSeq(lines, 1, k)) = Head(msgs)
            /\ LinesOf(SubSeq(lines, k + 1, Len(lines)), Tail(msgs))
\* no call of send_message is under way and none was ended by an exception
SendIdle == wr_pc \in {"get", "wait_closed", "returned"} /\ wr_exc = None

\* C8: send_message makes k+1 exchanges for a message with k newlines, one per
\* line in order: a write of the line and a blank line, then one readline; a
\* line is written only after the reply to the line before it has been read.
C8_OneExchangePerLine ==
    /\ \A i \in 1..Len(SendLog) :
          /\ SendLog[i].op = IF i % 2 = 1 THEN "write" ELSE "readline"
          /\ SendLog[i].op = "write" =>
                LET d == SendLog[i].data
                IN /\ Len(d) >= 2 /\ d[Len(d)] = NL /\ d[Len(d) - 1] = NL
                   /\ CountNL(d) = 2
    /\ LinesOf(WrittenLines \o wr_lines, send_calls)
    /\ SendIdle => (wr_lines = <<>> /\ Len(SendLog) = 2 * Len(WrittenLines))

C8_Witness ==
    /\ prog = "send" /\ wr_pc = "returned"
    /\ CountNL(cmd_message) = 2 /\ Len(cmd_message) = 3
    /\ Len(SendLog) = 6

\* C9: when replay is done it has put exactly the M lines the history file
\* held at start, in file order.
C9_ReplayExactlyOld ==
    (prog = "run" /\ hist_exists0 /\ ld_pc = "returned") => replay_put = OldMessages

\* C10: with no history file at start, replay raises nothing and the client
\* goes on.
C10_MissingHistoryIsEmpty ==
    (prog = "run" /\ ~hist_exists0) => (ld_pc # "raised" /\ main_exc # "FileNotFoundError")

\* the events a session has put on status_updates_queue
StatusEvents(session) ==
    SelectSeq(status_updates_queue,
              LAMBDA ev : ev \in {session \o ".INITIATED", session \o ".ESTABLISHED",
                                  session \o ".CLOSED"})

\* C11: each session puts INITIATED before its transport is opened, ESTABLISHED
\* once the transport is open (and the write session is authorized), and CLOSED
\* when its message loop has been left, in that order.
C11_StatusEventsInOrder ==
    prog = "run" =>
        /\ rd_pc = "connect" => StatusEvents("ReadConnectionStateChanged") =
               <<"ReadConnectionStateChanged.INITIATED">>
        /\ rd_pc = "readline" => StatusEvents("ReadConnectionStateChanged") =
               <<"ReadConnectionStateChanged.INITIATED",
                 "ReadConnectionStateChanged.ESTABLISHED">>
        /\ wr_pc \in {"get", "reply"} => StatusEvents("SendingConnectionStateChanged") =
               <<"SendingConnectionStateChanged.INITIATED",
                 "SendingConnectionStateChanged.ESTABLISHED">>
        /\ rd_pc = "returned" => StatusEvents("ReadConnectionStateChanged") =
               <<"ReadConnectionStateChanged.INITIATED",
                 "ReadConnectionStateChanged.ESTABLISHED",
                 "ReadConnectionStateChanged.CLOSED">>

\* the events on the connection that was opened last (connect reads its greeting)
ConnLog ==
    LET starts == {i \in 1..Len(wr_log) : wr_log[i].by = "connect"}
    IN IF starts = {} THEN <<>>
       ELSE SubSeq(wr_log, CHOOSE i \in starts : \A j \in starts : j <= i, Len(wr_log))
Reads(conn) == Len(SelectSeq(conn, LAMBDA ev : ev.op = "readline"))
\* the complete lines the client has written on a connection
RECURSIVE ClientBytes(_)
ClientBytes(conn) ==
    IF conn = <<>> THEN <<>> ELSE Head(conn).data \o ClientBytes(Tail(conn))
ClientLines(conn) ==
    LET pieces == split(ClientBytes(conn)) IN SubSeq(pieces, 1, Len(pieces) - 1)
\* the lines a server that follows the wire protocol has sent on the write port
\* when it has received lines: the prompt; for an empty first line the nickname
\* prompt and, after the nickname, the credentials; for a token the credentials
\* and the welcome line, or null; then one line for every payload line with its
\* blank line
ServerSent(lines) ==
    1 + IF lines = <<>> THEN 0
        ELSE IF lines[1] = <<>> THEN 1 + (IF Len(lines) >= 2 THEN 1 ELSE 0)
        ELSE IF lines[1][1] \in ValidTokens THEN 2 + (Len(lines) - 1) \div 2
        ELSE 1

\* C12: after register, autorize with the token of the returned credentials
\* gets credentials (not null), raises no unrecognized-token error, no backoff
\* sleep occurs, and every line read is the server's answer to what was written
\* before it: when autorize has returned, the next line is the reply to a message.
C12_RegisterThenAuthorize ==
    (prog = "send" /\ creds_file # NoCreds) =>
        /\ token = creds_file.account_hash
        /\ wr_auth # "null" /\ main_exc # "RuntimeError"
        /\ sleeps = 0
        /\ Reads(ConnLog) <= ServerSent(ClientLines(ConnLog))
        /\ wr_pc = "reply" => Reads(ConnLog) = ServerSent(ClientLines(ConnLog)) - 1
        /\ wr_pc \in {"wait_closed", "returned"} =>
               (wr_auth = "creds" /\ Reads(ConnLog) = ServerSent(ClientLines(ConnLog)))

C12_Witness ==
    /\ prog = "send" /\ creds_file # NoCreds /\ creds_file = user_creds
    /\ cmd_nickname = <<"n", NL, "m">> /\ Len(cmd_message) = MaxArgLen
    /\ wr_auth = "creds" /\ wr_pc = "returned"

\* C13: a session of chat_connection that has ended (returned, raised or
\* cancelled) holds no open transport, however its body was left.
C13_TransportsClosed ==
    prog \in {"run", "listen"} =>
        /\ rd_pc \in Terminated \cup {"wait_closed", "sleep", "connect"} => ~rd_open
        /\ wr_pc \in Terminated \cup {"wait_closed"} => ~wr_open

C13_Witness ==
    /\ prog = "run" /\ main_exc = "KeyboardInterrupt"
    /\ rd_pc = "cancelled" /\ srv_sent # <<>> /\ ~rd_eof
    /\ wr_pc = "cancelled" /\ Len(wr_log) >= 4
    /\ ~rd_open /\ ~wr_open

\* C14: a session holds no open transport when it opens a connection: the
\* transport of the attempt before was closed first, so at most one read
\* transport and at most one write transport are open.
C14_OneTransportPerSession ==
    /\ rd_pc \in {"init", "connect", "sleep"} => ~rd_open
    /\ wr_pc \in {"init", "connect", "reg_connect", "auth_connect"} => ~wr_open

C14_Witness ==
    /\ prog = "listen" /\ rd_pc = "readline" /\ rd_open
    /\ failures = 2 /\ last_fail_at < clock /\ Len(hist) >= 1

\* what authorize (run.py) or autorize with its connect (send_to_chat.py) has
\* done on the write connection: the operations and what was written
AuthLog ==
    IF prog = "run" THEN SelectSeq(wr_log, LAMBDA ev : ev.by = "authorize")
    ELSE IF \E i \in 1..Len(ConnLog) : ConnLog[i].by = "register" THEN <<>>
    ELSE SelectSeq(ConnLog, LAMBDA ev : ev.by \in {"connect", "autorize"})
AuthOps == [i \in 1..Len(AuthLog) |-> <<AuthLog[i].op, AuthLog[i].data>>]
AuthOrder ==
    << <<"readline", <<>>>>, <<"write", <<token, NL>>>>, <<"readline", <<>>>>,
       <<"readline", <<>>>> >>
\* authorize has returned
Authorized ==
    /\ token # None
    /\ \/ prog = "run" /\ wr_pc \in {"get", "reply"}
       \/ prog = "send" /\ wr_pc \in {"reply", "wait_closed", "returned"}

\* C15: authorize reads the prompt, writes the token as one line, reads the
\* reply; on null it raises having read two lines and written one; otherwise
\* it reads the welcome line and returns, and whatever is read or written on
\* the connection after that is send_message's.
C15_AuthorizeLineOrder ==
    prog \in {"run", "send"} =>
        /\ IsPrefix(AuthOps, AuthOrder)
        /\ wr_auth = "null" =>
               /\ AuthOps = SubSeq(AuthOrder, 1, 3)
               /\ IF prog = "run" THEN errors_shown = 1 ELSE main_exc = "RuntimeError"
        /\ Authorized =>
               /\ wr_auth = "creds" /\ AuthOps = AuthOrder
               /\ LET conn == IF prog = "run" THEN wr_log ELSE ConnLog
                  IN /\ SubSeq(conn, 1, 4) = AuthLog
                     /\ SubSeq(conn, 5, Len(conn)) = SendLog

C15_Witness ==
    /\ prog = "run" /\ Authorized /\ wr_pc = "get"
    /\ Len(AuthLog) = 4 /\ Len(SendLog) = 4

\* C16: retry never gives up: it ends only when listen_chat returns at
\* end-of-file or raises an exception that is not transient, and after the
\* k-th transient failure the attempt k+1 is made, unless the script is
\* interrupted.
C16_RetryUnbounded ==
    /\ [](prog = "listen" =>
            /\ rd_pc = "raised" => main_exc \notin TransientErrors
            /\ rd_pc = "returned" => rd_eof)
    /\ \A k \in 1..MaxRetries :
          (prog = "listen" /\ failures >= k) ~> (attempts >= k + 1 \/ shutdown)

C16_Witness ==
    /\ prog = "listen" /\ ~shutdown
    /\ failures = MaxRetries /\ attempts = MaxRetries + 1
    /\ rd_pc = "readline" /\ rd_open

\* C17: the messages passed to send_message are the messages put on
\* sending_queue, in the order they were put, and a message is taken from the
\* queue only when every line of the one before has been written and its reply
\* read.
C17_SendsInQueueOrder ==
    /\ [](prog = "run" => gui_sent = send_calls \o sending_queue)
    /\ [][(prog = "run" /\ send_calls' # send_calls) =>
              /\ wr_lines = <<>>
              /\ Len(SendLog) = 2 * Len(WrittenLines)
              /\ LinesOf(WrittenLines, send_calls)
              /\ send_calls' = Append(send_calls, Head(sending_queue))]_vars

C17_Witness ==
    /\ prog = "run" /\ wr_pc = "reply" /\ wr_open
    /\ Len(send_calls) = 2 /\ send_calls[1] = <<NL>> /\ send_calls[2] = <<"a">>
    /\ Len(SendLog) = 5

\* C18: in one call of the wrapper only the first transient failure is retried
\* at once: the flag is set when the call starts, cleared by the first
\* transient failure and never set again, and every later transient failure,
\* also one after messages were received, is followed by the sleep of
\* RETRY_TIMEOUT before the next attempt.
C18_OneImmediateRetry ==
    [][prog = "listen" =>
          /\ (rd_pc = "init" /\ rd_pc' # "init") => is_first_attempt'
          /\ (rd_pc # "init" /\ ~is_first_attempt) => ~is_first_attempt'
          /\ failures' > failures =>
                /\ ~is_first_attempt'
                /\ is_first_attempt <=> failures = 0
                /\ IF failures = 0
                   THEN rd_pc' = "connect" /\ attempts' = attempts + 1 /\ clock' = clock
                   ELSE /\ rd_pc' = "sleep" /\ attempts' = attempts
                        /\ wake_at' = clock + RETRY_TIMEOUT
          /\ (rd_pc = "sleep" /\ rd_pc' = "connect") => clock' = wake_at]_vars

C18_Witness ==
    /\ prog = "listen" /\ rd_pc = "sleep" /\ ~is_first_attempt
    /\ failures = 2 /\ sleeps = 0 /\ Len(hist) >= 1
    /\ wake_at = clock + RETRY_TIMEOUT

\* C19: the null reply to the token ends the write session only: its steps
\* from then on change nothing of the read session, the queues, the history
\* file, save_msgs, load_old_messages or start_chat; send_messages returns
\* and raises nothing; and the live messages still reach the history file.
C19_InvalidTokenOnlyEndsWriteSession ==
    /\ [][(/\ prog = "run" /\ wr_auth' = "null"
            /\ wr_pc' # wr_pc /\ wr_pc' \in {"get", "wait_closed", "returned", "raised"}) =>
              /\ UNCHANGED <<readVars, queueVars, histVars, saveVars, loadVars, mainVars>>
              /\ wr_pc' \in {"wait_closed", "returned"}
              /\ wr_exc' = None]_vars
    /\ [](prog = "run" /\ wr_auth = "null" =>
             (main_exc # "InvalidToken" /\ wr_pc # "raised"))
    /\ \A i \in 1..MaxInputs :
          (prog = "run" /\ wr_auth = "null" /\ Len(live_put) >= i)
              ~> (shutdown \/ Len(Appended) >= i)

C19_Witness ==
    /\ prog = "run" /\ wr_auth = "null" /\ wr_pc = "returned" /\ ~shutdown
    /\ rd_pc = "readline" /\ rd_open /\ ld_pc = "returned"
    /\ Len(Appended) = MaxInputs /\ Len(replay_put) >= 1

\* C20 as stated: in every reachable state the lines save_msgs has appended,
\* followed by the contents of chat_history_queue, are the live messages
\* read_msgs has put on messages_queue, and both puts of a line are one step.
C20_HistoryThenQueueIsLive ==
    prog = "run" =>
        /\ live_hput = live_put
        /\ AppendedMessages \o chat_history_queue = live_put

\* the live messages that are neither in the history file nor in the queue
Pending ==
    SubSeq(live_put, Len(Appended) + 1, Len(live_put) - Len(chat_history_queue))

\* C20 as amended: the appended lines, then at most one message that save_msgs
\* has taken from the queue and not written (exactly the one it is writing,
\* while it runs), then the queue, are the live messages in arrival order.
C20_HistoryPendingQueueIsLive ==
    prog = "run" =>
        /\ live_hput = live_put
        /\ Len(Appended) + Len(chat_history_queue) <= Len(live_put)
        /\ AppendedMessages \o Pending \o chat_history_queue = live_put
        /\ Len(Pending) <= 1
        /\ sv_pc \in {"init", "get"} => Pending = <<>>
        /\ sv_pc = "write" => Pending = <<sv_msg>>

C20_Witness ==
    /\ prog = "run" /\ ~shutdown /\ sv_pc = "write"
    /\ Len(Appended) = 1 /\ Len(live_put) = 2 /\ Pending = <<live_put[2]>>
    /\ live_put[1] # live_put[2]

====
